---------------------------- MODULE Spec2Model ----------------------------
(***************************************************************************)
(* KYC submission / decision / blockchain anchoring workflow of the        *)
(* Blockchain_KYC backend (backend/services/kyc_service.py and the         *)
(* repository, blockchain service and transaction handler it calls).       *)
(***************************************************************************)
EXTENDS Integers, Sequences, FiniteSets, TLC

(***************************************************************************)
(* Bounds of the model.                                                    *)
(***************************************************************************)
MaxSubs == 2          \* KYC submissions ever inserted
MaxVerifications == 2 \* face verification records ever inserted

Users == {"u1", "u2"}
Admins == {"admin1"}
Notes == {"blurry document"}
Workers == {"w1", "w2"}   \* request threads of the web framework

(***************************************************************************)
(* Identifiers.  MongoDB gives every inserted document an ObjectId; the    *)
(* repository hands documents out with '_id' replaced by str(ObjectId),    *)
(* and parses the strings of requests back with ObjectId(kyc_id).  The two *)
(* forms are different values: a query {'_id': <string>} does not match a  *)
(* document whose '_id' is an ObjectId.                                    *)
(***************************************************************************)
NewObjectId(n) == <<"ObjectId", n>>

str(oid) == <<"str", oid[2]>>

\* a request string that is not 24 hex digits
BadIdString == <<"str", 0>>

\* bson.ObjectId(s): raises InvalidId for anything but a 24-hex string
InvalidId == <<"InvalidId", 0>>

ObjectId(s) == IF s[1] = "str" /\ s[2] >= 1 THEN <<"ObjectId", s[2]>> ELSE InvalidId

KycIdStrings == {<<"str", n>> : n \in 0..MaxSubs}

(***************************************************************************)
(* Request payloads.  A KYC data record is abstracted to what the code     *)
(* tests: whether a required field is missing, whether a present field has *)
(* a bad format, and the face image it carries.                            *)
(***************************************************************************)
FaceImages == {"absent", "good", "poor"}

KycData == [missing : BOOLEAN, bad : BOOLEAN, face_image : FaceImages]

\* the payloads the requests are drawn from: a complete record with a usable
\* or an unusable face image, a record with a field missing, one with a
\* malformed field; a patch may also leave the face image out
InvalidPayloads == {d \in KycData : d.missing # d.bad /\ d.face_image = "absent"}

SubmitPayloads ==
    {d \in KycData : ~d.missing /\ ~d.bad /\ d.face_image # "absent"} \cup InvalidPayloads

UpdatePayloads == {d \in KycData : ~d.missing /\ ~d.bad} \cup InvalidPayloads

Decisions == {"approved", "rejected", "on_hold"}

\* which database round trip of a call raises a pymongo error, if any
Faults == {"none", "read", "write"}

validate_kyc_data(kyc_data, partial) ==
    LET errors == (IF ~partial /\ kyc_data.missing
                      THEN {"Missing required field"} ELSE {})
                  \cup (IF kyc_data.bad THEN {"Invalid format"} ELSE {})
    IN  [valid |-> errors = {}, errors |-> errors]

validate_image_quality(image) == [valid |-> image = "good"]

(***************************************************************************)
(* State.                                                                  *)
(***************************************************************************)
VARIABLES
    kyc_collection,          \* collection kyc_submissions, in insertion order
    blockchain_collection,   \* collection blockchain_transactions
    face_verification_collection,  \* collection face_verifications, in insertion order
    users_collection,        \* collection users, in insertion order
    chain,                   \* transactions sent to the contract
    store_calls,             \* per kyc id: invocations of BlockchainService.store_kyc_verification
    blockchain_result,       \* per kyc id: 'success' of what the last of these invocations returned
    inflight,                \* per worker: the service call it is in the middle of
    result                   \* per worker: what its last finished service call returned

vars == <<kyc_collection, blockchain_collection, face_verification_collection,
          users_collection, chain, store_calls, blockchain_result, inflight, result>>

None == [kind |-> "none"]

NoNotes == <<>>

NoId == <<"str", -1>>

\* a returned dict: 'success', 'message', 'status' and 'admin_notes' where the
\* call returns them, with the call that returned it: op, the caller, and in
\* kyc_id the id the call was about (the new id for a submit)
NoResult == [op |-> "none", caller |-> "none", kyc_id |-> NoId, success |-> FALSE,
             message |-> "none", status |-> "none", admin_notes |-> NoNotes]

Response(op, caller, kyc_id, success, message, status, admin_notes) ==
    [op |-> op, caller |-> caller, kyc_id |-> kyc_id, success |-> success,
     message |-> message, status |-> status, admin_notes |-> admin_notes]

Init ==
    /\ kyc_collection = <<>>
    /\ blockchain_collection = {}
    /\ chain = {}
    /\ face_verification_collection = <<>>
    /\ users_collection = <<>>
    /\ store_calls = [k \in KycIdStrings |-> 0]
    /\ blockchain_result = [k \in KycIdStrings |-> None]
    /\ inflight = [w \in Workers |-> None]
    /\ result = [w \in Workers |-> NoResult]

(***************************************************************************)
(* Repository (backend/database/kyc_repository.py).  db_ok = FALSE is a    *)
(* pymongo error raised by the collection call.                            *)
(***************************************************************************)
Indexes(coll) == 1..Len(coll)

\* find_one({'_id': id}): the position of the matching document, 0 if none
FindById(coll, id) ==
    IF \E i \in Indexes(coll) : coll[i]._id = id
       THEN CHOOSE i \in Indexes(coll) : coll[i]._id = id
       ELSE 0

WithStrId(doc) == [doc EXCEPT !._id = str(doc._id)]

get_kyc_submission_by_id(coll, kyc_id, db_ok) ==
    IF ~db_ok \/ ObjectId(kyc_id) = InvalidId THEN None
    ELSE LET i == FindById(coll, ObjectId(kyc_id))
         IN  IF i = 0 THEN None ELSE WithStrId(coll[i])

get_kyc_submissions_by_user(coll, user_id, db_ok) ==
    IF ~db_ok THEN <<>>
    ELSE LET found == SelectSeq(coll, LAMBDA d : d.user_id = user_id)
         IN  [i \in Indexes(found) |-> WithStrId(found[i])]

\* variant: a unique index on the active submission of a user turns the insert
\* of a second one down
create_kyc_submission_unique(coll, kyc_data) ==
    IF \E i \in Indexes(coll) :
          coll[i].user_id = kyc_data.user_id /\ coll[i].status \in {"pending", "approved"}
       THEN coll
       ELSE Append(coll, [_id |-> NewObjectId(Len(coll) + 1),
                          user_id |-> kyc_data.user_id,
                          face_image |-> kyc_data.face_image,
                          status |-> "pending",
                          admin_notes |-> NoNotes,
                          submission_date |-> Len(coll) + 1])

\* insert_one of create_kyc_submission: the document gets a fresh ObjectId
create_kyc_submission(coll, kyc_data) ==
    Append(coll, [_id |-> NewObjectId(Len(coll) + 1),
                  user_id |-> kyc_data.user_id,
                  face_image |-> kyc_data.face_image,
                  status |-> "pending",
                  admin_notes |-> NoNotes,
                  submission_date |-> Len(coll) + 1])

\* collection.update_one({'_id': id}, {'$set': fields}).  Values of different
\* BSON types never match, and every $set of the code carries a fresh
\* timestamp, so a matched document is a modified one.
update_one(coll, id, fields) ==
    LET i == FindById(coll, id)
    IN  IF i = 0 THEN [coll |-> coll, modified_count |-> 0]
        ELSE [coll |-> [coll EXCEPT ![i] =
                           [k \in DOMAIN coll[i] |->
                               IF k \in DOMAIN fields THEN fields[k] ELSE coll[i][k]]],
              modified_count |-> 1]

update_kyc_status(coll, kyc_id, status, admin_notes, db_ok) ==
    IF ~db_ok \/ ObjectId(kyc_id) = InvalidId
       THEN [coll |-> coll, ok |-> FALSE]
       ELSE LET update_data == IF admin_notes # NoNotes
                                  THEN [status |-> status, admin_notes |-> admin_notes]
                                  ELSE [status |-> status]
                r == update_one(coll, ObjectId(kyc_id), update_data)
            IN  [coll |-> r.coll, ok |-> r.modified_count > 0]

(***************************************************************************)
(* KYCService.submit_kyc                                                   *)
(***************************************************************************)
IsActive(doc) == doc.status \in {"pending", "approved"}

\* the first pending or approved record of the list, in list order
FirstActive(existing_kyc) ==
    LET active == SelectSeq(existing_kyc, IsActive)
    IN  IF active = <<>> THEN None ELSE active[1]

AlreadyHas(status) ==
    IF status = "pending" THEN "User already has pending KYC submission"
    ELSE "User already has approved KYC submission"

\* the checks before the insert: the message of the failure, or "ok"
submit_checks(kyc_data, existing_kyc) ==
    IF ~validate_kyc_data(kyc_data, FALSE).valid THEN "Validation failed"
    ELSE IF FirstActive(existing_kyc) # None
            THEN AlreadyHas(FirstActive(existing_kyc).status)
    ELSE IF kyc_data.face_image # "absent"
            /\ ~validate_image_quality(kyc_data.face_image).valid
            THEN "Face image validation failed"
    ELSE "ok"

\* the insert and the return value that follows it
submit_insert(w, user_id, kyc_data, insert_ok) ==
    IF insert_ok
       THEN /\ kyc_collection' = create_kyc_submission(kyc_collection,
                    [user_id |-> user_id, face_image |-> kyc_data.face_image])
            /\ result' = [result EXCEPT ![w] =
                    Response("submit", user_id,
                             str(NewObjectId(Len(kyc_collection) + 1)), TRUE,
                             "KYC submission created successfully", "pending", NoNotes)]
       ELSE /\ UNCHANGED kyc_collection
            /\ result' = [result EXCEPT ![w] =
                    Response("submit", user_id, NoId, FALSE,
                             "KYC submission failed due to system error", "none", NoNotes)]

\* one whole call, run without interruption
submit_kyc(w, user_id, kyc_data, lookup_ok, insert_ok) ==
    /\ inflight[w] = None
    /\ Len(kyc_collection) < MaxSubs
    /\ LET existing_kyc == get_kyc_submissions_by_user(kyc_collection, user_id, lookup_ok)
           check == submit_checks(kyc_data, existing_kyc)
       IN  IF check # "ok"
              THEN /\ result' = [result EXCEPT ![w] =
                          Response("submit", user_id, NoId, FALSE, check, "none", NoNotes)]
                   /\ UNCHANGED kyc_collection
              ELSE submit_insert(w, user_id, kyc_data, insert_ok)
    /\ UNCHANGED <<users_collection, blockchain_collection, face_verification_collection, chain,
                   store_calls, blockchain_result, inflight>>

(***************************************************************************)
(* KYCService.get_kyc_status                                               *)
(***************************************************************************)
\* max(kyc_submissions, key=submission_date): the first of the latest
LatestOf(kyc_submissions) ==
    LET i == CHOOSE i \in Indexes(kyc_submissions) :
                 /\ \A j \in Indexes(kyc_submissions) :
                       kyc_submissions[j].submission_date <= kyc_submissions[i].submission_date
                 /\ \A j \in 1..(i-1) :
                       kyc_submissions[j].submission_date < kyc_submissions[i].submission_date
    IN  kyc_submissions[i]

get_kyc_status(w, user_id, lookup_ok) ==
    /\ inflight[w] = None
    /\ LET kyc_submissions == get_kyc_submissions_by_user(kyc_collection, user_id, lookup_ok)
       IN  result' = [result EXCEPT ![w] =
              IF kyc_submissions = <<>>
                 THEN Response("status", user_id, NoId, TRUE,
                               "No KYC submission found", "not_submitted", NoNotes)
                 ELSE LET latest_kyc == LatestOf(kyc_submissions)
                      IN  Response("status", user_id, latest_kyc._id, TRUE, "none",
                                   latest_kyc.status, latest_kyc.admin_notes)]
    /\ UNCHANGED <<users_collection, kyc_collection, blockchain_collection,
                   face_verification_collection,
                   chain, store_calls, blockchain_result, inflight>>

(***************************************************************************)
(* BlockchainService.store_kyc_verification, with the transaction handler  *)
(* and the contract wrapper it calls.  The outcome is what the node and    *)
(* the configuration make of the call:                                     *)
(*   not_initialized  no web3 client or no account: nothing is sent        *)
(*   send_failed      building, signing or sending the transaction raised  *)
(*   reverted         sent; the receipt reports status # 1                 *)
(*   timeout          sent; waiting for the receipt raised                 *)
(*   confirmed        sent; the receipt reports status 1                   *)
(* record_ok = FALSE is a database error in create_blockchain_transaction. *)
(***************************************************************************)
Outcomes == {"not_initialized", "send_failed", "reverted", "timeout", "confirmed"}

TxState(outcome) ==
    IF outcome = "reverted" THEN "reverted"
    ELSE IF outcome = "timeout" THEN "pending"
    ELSE "mined"

create_blockchain_transaction(coll, transaction_data) == coll \cup {transaction_data}

\* variant: the status of the receipt is not looked at
create_kyc_verification_transaction_any_receipt(outcome) ==
    [sent |-> outcome \in {"reverted", "timeout", "confirmed"},
     success |-> outcome \in {"reverted", "confirmed"}]

\* variant: a receipt that does not come in time counts as a confirmation
create_kyc_verification_transaction_no_timeout(outcome) ==
    [sent |-> outcome \in {"reverted", "timeout", "confirmed"},
     success |-> outcome \in {"timeout", "confirmed"}]

\* TransactionHandler.create_kyc_verification_transaction: whether the contract
\* wrapper got a transaction out (send_raw_transaction returned), and 'success'
\* of the dict it returns: the receipt came in time and has status 1
create_kyc_verification_transaction(outcome) ==
    [sent |-> outcome \in {"reverted", "timeout", "confirmed"},
     success |-> outcome = "confirmed"]

\* the hash of the n-th transaction sent for a kyc id
TxHash(kyc_id, n) == <<kyc_id[2], n>>

NoHash == <<0, 0>>

store_kyc_verification(user_id, kyc_id, admin_id, outcome, record_ok) ==
    LET tx_hash == TxHash(kyc_id, store_calls[kyc_id] + 1)
        sent == chain \cup {[transaction_hash |-> tx_hash, user_id |-> user_id,
                              kyc_id |-> kyc_id, admin_id |-> admin_id,
                              state |-> TxState(outcome)]}
        blockchain_data == [user_id |-> user_id, kyc_id |-> kyc_id,
                            transaction_hash |-> tx_hash,
                            verification_status |-> TRUE, admin_id |-> admin_id]
        Failure(message, ch) ==
            [chain |-> ch, blockchain_collection |-> blockchain_collection,
             result |-> [success |-> FALSE, message |-> message, transaction_hash |-> NoHash]]
    IN  IF outcome = "not_initialized"
           THEN Failure("Blockchain not properly initialized", chain)
        ELSE LET transaction_result == create_kyc_verification_transaction(outcome)
                 ch == IF transaction_result.sent THEN sent ELSE chain
             IN  IF ~transaction_result.success
                    THEN Failure("Blockchain transaction failed", ch)
                 ELSE IF ~record_ok
                    THEN Failure("Blockchain storage failed due to system error", ch)
                 ELSE [chain |-> ch,
                       blockchain_collection |->
                           create_blockchain_transaction(blockchain_collection,
                                                         blockchain_data),
                       result |-> [success |-> TRUE,
                                   message |->
                                       "KYC verification stored on blockchain successfully",
                                   transaction_hash |-> tx_hash]]

\* a transaction whose receipt did not come in time stays with the node, which
\* can still include it in a block: with status 1 ("mined") or 0 ("reverted")
receipt_after_timeout(tx, state) ==
    /\ tx \in chain
    /\ tx.state = "pending"
    /\ chain' = (chain \ {tx}) \cup {[tx EXCEPT !.state = state]}
    /\ UNCHANGED <<users_collection, kyc_collection, blockchain_collection,
                   face_verification_collection,
                   store_calls, blockchain_result, inflight, result>>

(***************************************************************************)
(* KYCService.verify_kyc_submission (the admin's decide)                   *)
(***************************************************************************)
AlreadyIs(status) ==
    IF status = "approved" THEN "KYC submission is already approved"
    ELSE "KYC submission is already rejected"

Successfully(decision) ==
    IF decision = "approved" THEN "KYC submission approved successfully"
    ELSE "KYC submission rejected successfully"

\* variant: the check of the current status is left out
decide_checks_any_status(decision, kyc_submission) ==
    IF decision \notin {"approved", "rejected"} THEN "Invalid decision"
    ELSE IF kyc_submission = None THEN "KYC submission not found"
    ELSE "ok"

\* the checks before the status update: the message of the failure, or "ok"
decide_checks(decision, kyc_submission) ==
    IF decision \notin {"approved", "rejected"} THEN "Invalid decision"
    ELSE IF kyc_submission = None THEN "KYC submission not found"
    ELSE IF kyc_submission.status # "pending" THEN AlreadyIs(kyc_submission.status)
    ELSE "ok"

\* variant: the result of update_kyc_status is not looked at
after_update_unchecked(decision, update_success) ==
    IF decision = "approved" THEN "anchor" ELSE "return"

\* variant: every decision is stored on the blockchain
after_update_always_anchor(decision, update_success) ==
    IF ~update_success THEN "failed" ELSE "anchor"

\* what follows the status update
after_update(decision, update_success) ==
    IF ~update_success THEN "failed"
    ELSE IF decision = "approved" THEN "anchor"
    ELSE "return"

\* variant: a failed blockchain store fails the call
decide_response_anchor_required(admin_id, kyc_id, decision, admin_notes, bc_result) ==
    IF bc_result # None /\ ~bc_result.success
       THEN Response("decide", admin_id, kyc_id, FALSE,
                     "KYC verification failed due to system error", "none", NoNotes)
       ELSE Response("decide", admin_id, kyc_id, TRUE, Successfully(decision),
                     decision, admin_notes)

\* the return value of a decide that got past the status update; the result
\* of the blockchain call only goes to the log
decide_response(admin_id, kyc_id, decision, admin_notes, bc_result) ==
    Response("decide", admin_id, kyc_id, TRUE, Successfully(decision), decision, admin_notes)

\* from the entry of the call to the point right after update_kyc_status
verify_kyc_submission(w, kyc_id, admin_id, decision, notes, find_ok, update_ok) ==
    /\ inflight[w] = None
    /\ LET kyc_submission == get_kyc_submission_by_id(kyc_collection, kyc_id, find_ok)
           check == decide_checks(decision, kyc_submission)
           admin_notes == <<admin_id, notes>>
           updated == update_kyc_status(kyc_collection, kyc_id, decision, admin_notes, update_ok)
           Fail(message) ==
               result' = [result EXCEPT ![w] =
                   Response("decide", admin_id, kyc_id, FALSE, message, "none", NoNotes)]
       IN  IF check # "ok"
              THEN /\ Fail(check)
                   /\ UNCHANGED <<kyc_collection, inflight>>
              ELSE /\ kyc_collection' = updated.coll
                   /\ CASE after_update(decision, updated.ok) = "failed" ->
                              /\ Fail("Failed to update KYC status")
                              /\ UNCHANGED inflight
                        [] after_update(decision, updated.ok) = "anchor" ->
                              /\ inflight' = [inflight EXCEPT ![w] =
                                     [kind |-> "decide", kyc_id |-> kyc_id,
                                      user_id |-> kyc_submission.user_id,
                                      admin_id |-> admin_id, decision |-> decision,
                                      admin_notes |-> admin_notes]]
                              /\ UNCHANGED result
                        [] after_update(decision, updated.ok) = "return" ->
                              /\ result' = [result EXCEPT ![w] =
                                     decide_response(admin_id, kyc_id, decision,
                                                     admin_notes, None)]
                              /\ UNCHANGED inflight
    /\ UNCHANGED <<users_collection, blockchain_collection, face_verification_collection, chain,
                   store_calls, blockchain_result>>

\* the rest of the call: the blockchain store and the return
verify_kyc_submission_anchor(w, outcome, record_ok) ==
    /\ inflight[w].kind = "decide"
    /\ LET call == inflight[w]
           stored == store_kyc_verification(call.user_id, call.kyc_id, call.admin_id,
                                            outcome, record_ok)
       IN  /\ store_calls' = [store_calls EXCEPT ![call.kyc_id] = @ + 1]
           /\ blockchain_result' = [blockchain_result EXCEPT ![call.kyc_id] =
                                    [success |-> stored.result.success]]
           /\ chain' = stored.chain
           /\ blockchain_collection' = stored.blockchain_collection
           /\ result' = [result EXCEPT ![w] =
                  decide_response(call.admin_id, call.kyc_id, call.decision,
                                  call.admin_notes, stored.result)]
    /\ inflight' = [inflight EXCEPT ![w] = None]
    /\ UNCHANGED <<users_collection, kyc_collection, face_verification_collection>>

(***************************************************************************)
(* KYCService.update_kyc_submission                                        *)
(***************************************************************************)
CannotUpdate(status) == "Cannot update approved KYC submission"

\* variant: the ownership check is left out
update_checks_any_user(kyc_submission, user_id, update_data) ==
    IF kyc_submission = None THEN "KYC submission not found"
    ELSE IF kyc_submission.status \notin {"pending", "rejected"}
            THEN CannotUpdate(kyc_submission.status)
    ELSE IF ~validate_kyc_data(update_data, TRUE).valid THEN "Validation failed"
    ELSE IF update_data.face_image # "absent"
            /\ ~validate_image_quality(update_data.face_image).valid
            THEN "Face image validation failed"
    ELSE "ok"

\* the checks before the write: the message of the failure, or "ok"
update_checks(kyc_submission, user_id, update_data) ==
    IF kyc_submission = None THEN "KYC submission not found"
    ELSE IF kyc_submission.user_id # user_id THEN "Access denied"
    ELSE IF kyc_submission.status \notin {"pending", "rejected"}
            THEN CannotUpdate(kyc_submission.status)
    ELSE IF ~validate_kyc_data(update_data, TRUE).valid THEN "Validation failed"
    ELSE IF update_data.face_image # "absent"
            /\ ~validate_image_quality(update_data.face_image).valid
            THEN "Face image validation failed"
    ELSE "ok"

\* the '_id' the update filters on: the one of the fetched document
update_filter_id(kyc_submission) == kyc_submission._id

update_kyc_submission(w, kyc_id, user_id, update_data, find_ok, write_ok) ==
    /\ inflight[w] = None
    /\ LET kyc_submission == get_kyc_submission_by_id(kyc_collection, kyc_id, find_ok)
           check == update_checks(kyc_submission, user_id, update_data)
           update_fields == IF update_data.face_image # "absent"
                               THEN [status |-> "pending",
                                     face_image |-> update_data.face_image]
                               ELSE [status |-> "pending"]
           written == update_one(kyc_collection, update_filter_id(kyc_submission),
                                 update_fields)
           Return(success, message, status) ==
               result' = [result EXCEPT ![w] =
                   Response("update", user_id, kyc_id, success, message, status, NoNotes)]
       IN  IF check # "ok"
              THEN Return(FALSE, check, "none") /\ UNCHANGED kyc_collection
           ELSE IF ~write_ok
              THEN Return(FALSE, "KYC update failed due to system error", "none")
                   /\ UNCHANGED kyc_collection
           ELSE /\ kyc_collection' = written.coll
                /\ IF written.modified_count > 0
                      THEN Return(TRUE, "KYC submission updated successfully", "pending")
                      ELSE Return(FALSE, "No changes were made to KYC submission", "none")
    /\ UNCHANGED <<users_collection, blockchain_collection, face_verification_collection, chain,
                   store_calls, blockchain_result, inflight>>

(***************************************************************************)
(* FaceVerificationService.verify_face_with_stored_image.  A live image is *)
(* abstracted to what the code makes of it:                                *)
(*   corrupt  _decode_base64_image returns None                            *)
(*   noface   decodes; _detect_face finds no face in it                    *)
(*   same     decodes; the similarity to the stored image is above the     *)
(*            threshold                                                    *)
(*   other    decodes; the similarity is not above the threshold           *)
(* A stored face image is "good" (it went through validate_image_quality,  *)
(* so it decodes and has a face) or "absent" (the submission carried none: *)
(* the document then holds face_image = None).                             *)
(***************************************************************************)
LiveImages == {"corrupt", "noface", "same", "other"}

\* whether _decode_base64_image returns an array
decode_base64_image(image) == image \notin {"absent", "corrupt"}

\* verify_faces on two decoded images, the live one first
verify_faces(live_image, stored_image) ==
    IF live_image = "noface"
       THEN [success |-> FALSE, message |-> "No face detected in first image",
             similarity_score |-> "zero", is_same_person |-> FALSE]
       ELSE [success |-> TRUE, message |-> "Face verification completed successfully",
             similarity_score |-> IF live_image = "same" THEN "above" ELSE "not above",
             is_same_person |-> live_image = "same"]

\* variant: only the last verification of a user is kept
create_face_verification_latest_only(coll, verification_data) ==
    Append(SelectSeq(coll, LAMBDA v : v.user_id # verification_data.user_id),
           verification_data)

\* variant: only a match is recorded
create_face_verification_if_same(coll, verification_data) ==
    IF verification_data.verification_result THEN Append(coll, verification_data) ELSE coll

\* insert_one of create_face_verification
create_face_verification(coll, verification_data) == Append(coll, verification_data)

\* variant: any submission of the list will do
approved_kyc_any_status(kyc_submissions) ==
    IF kyc_submissions = <<>> THEN None ELSE kyc_submissions[1]

\* the loop over the list: the first approved submission, in list order
approved_kyc_of(kyc_submissions) ==
    LET approved == SelectSeq(kyc_submissions, LAMBDA kyc : kyc.status = "approved")
    IN  IF approved = <<>> THEN None ELSE approved[1]

\* the returned dict, with the call that returned it: the caller, the live
\* image of the request and in kyc_id the submission that was compared against
VerifyResponse(user_id, live_image, kyc_id, success, message, score, is_same_person) ==
    [op |-> "verify", caller |-> user_id, live_image |-> live_image, kyc_id |-> kyc_id,
     success |-> success, message |-> message, similarity_score |-> score,
     is_same_person |-> is_same_person]

\* the key 'face_image' is in every document that submit_kyc built, so the
\* test 'face_image' not in approved_kyc never fires: a submission without a
\* face image fails at the decoding of None
verify_face_with_stored_image(w, user_id, live_image, lookup_ok, insert_ok) ==
    /\ inflight[w] = None
    /\ Len(face_verification_collection) < MaxVerifications
    /\ LET kyc_submissions == get_kyc_submissions_by_user(kyc_collection, user_id, lookup_ok)
           approved_kyc == approved_kyc_of(kyc_submissions)
           verified == verify_faces(live_image, approved_kyc.face_image)
           verification_data == [user_id |-> user_id,
                                 kyc_submission_id |-> approved_kyc._id,
                                 similarity_score |-> verified.similarity_score,
                                 verification_result |-> verified.is_same_person]
           Fail(message) ==
               /\ result' = [result EXCEPT ![w] =
                      VerifyResponse(user_id, live_image, NoId, FALSE, message, "zero", FALSE)]
               /\ UNCHANGED face_verification_collection
       IN  IF kyc_submissions = <<>>
              THEN Fail("No KYC submission found for user")
           ELSE IF approved_kyc = None
              THEN Fail("No approved KYC submission with face image found")
           ELSE IF ~decode_base64_image(live_image)
                   \/ ~decode_base64_image(approved_kyc.face_image)
              THEN Fail("Failed to decode images")
           ELSE IF ~insert_ok
              THEN Fail("Face verification failed due to system error")
           ELSE /\ face_verification_collection' =
                      create_face_verification(face_verification_collection,
                                               verification_data)
                /\ result' = [result EXCEPT ![w] =
                      VerifyResponse(user_id, live_image, approved_kyc._id, verified.success,
                                     verified.message, verified.similarity_score,
                                     verified.is_same_person)]
    /\ UNCHANGED <<users_collection, kyc_collection, blockchain_collection, chain, store_calls,
                   blockchain_result, inflight>>

(***************************************************************************)
(* Requests served one at a time, each to completion, by one worker.       *)
(***************************************************************************)
Next ==
    \/ \E u \in Users, d \in SubmitPayloads, f \in Faults :
          submit_kyc("w1", u, d, f # "read", f # "write")
    \/ \E u \in Users, f \in Faults \ {"write"} :
          get_kyc_status("w1", u, f # "read")
    \/ \E k \in KycIdStrings, a \in Admins, d \in Decisions, n \in Notes, f \in Faults :
          verify_kyc_submission("w1", k, a, d, n, f # "read", f # "write")
    \/ \E o \in Outcomes, f \in Faults \ {"read"} :
          verify_kyc_submission_anchor("w1", o, f # "write")
    \/ \E k \in KycIdStrings, u \in Users, d \in UpdatePayloads, f \in Faults :
          update_kyc_submission("w1", k, u, d, f # "read", f # "write")

Spec == Init /\ [][Next]_vars

(***************************************************************************)
(* Requests of two worker threads, interleaved at the database round       *)
(* trips of submit_kyc: the lookup with the checks is one step, the insert *)
(* another.  No lock and no transaction joins the two.                     *)
(***************************************************************************)
submit_kyc_check(w, user_id, kyc_data, lookup_ok) ==
    /\ inflight[w] = None
    /\ LET existing_kyc == get_kyc_submissions_by_user(kyc_collection, user_id, lookup_ok)
           check == submit_checks(kyc_data, existing_kyc)
       IN  IF check # "ok"
              THEN /\ result' = [result EXCEPT ![w] =
                          Response("submit", user_id, NoId, FALSE, check, "none", NoNotes)]
                   /\ UNCHANGED inflight
              ELSE /\ inflight' = [inflight EXCEPT ![w] =
                          [kind |-> "submit", user_id |-> user_id, kyc_data |-> kyc_data]]
                   /\ UNCHANGED result
    /\ UNCHANGED <<users_collection, kyc_collection, blockchain_collection,
                   face_verification_collection,
                   chain, store_calls, blockchain_result>>

submit_kyc_insert(w, insert_ok) ==
    /\ inflight[w].kind = "submit"
    /\ Len(kyc_collection) < MaxSubs
    /\ submit_insert(w, inflight[w].user_id, inflight[w].kyc_data, insert_ok)
    /\ inflight' = [inflight EXCEPT ![w] = None]
    /\ UNCHANGED <<users_collection, blockchain_collection, face_verification_collection, chain,
                   store_calls, blockchain_result>>

RacePayloads == {d \in SubmitPayloads : ~d.missing /\ d.face_image # "poor"}

RaceNext ==
    \/ \E w \in Workers, u \in Users, d \in RacePayloads :
          submit_kyc_check(w, u, d, TRUE)
    \/ \E w \in Workers :
          submit_kyc_insert(w, TRUE)
    \/ \E w \in Workers, k \in KycIdStrings \ {BadIdString}, a \in Admins,
          d \in {"approved", "rejected"}, n \in Notes :
          verify_kyc_submission(w, k, a, d, n, TRUE, TRUE)
    \/ \E w \in Workers, o \in {"timeout", "confirmed"} :
          verify_kyc_submission_anchor(w, o, TRUE)

RaceSpec == Init /\ [][RaceNext]_vars

(***************************************************************************)
(* The same requests of one worker together with face verification.  A     *)
(* submission may come without a face image, and the lookup of a submit    *)
(* may fail, which is how a user gets a second submission.                 *)
(***************************************************************************)
FacePayloads == {d \in KycData : ~d.missing /\ ~d.bad /\ d.face_image # "poor"}

FaceNext ==
    \/ \E u \in Users, d \in FacePayloads, f \in Faults \ {"write"} :
          submit_kyc("w1", u, d, f # "read", TRUE)
    \/ \E k \in KycIdStrings \ {BadIdString}, a \in Admins,
          d \in {"approved", "rejected"}, n \in Notes :
          verify_kyc_submission("w1", k, a, d, n, TRUE, TRUE)
    \/ verify_kyc_submission_anchor("w1", "confirmed", TRUE)
    \/ \E u \in Users, l \in LiveImages, f \in Faults :
          verify_face_with_stored_image("w1", u, l, f # "read", f # "write")

FaceSpec == Init /\ [][FaceNext]_vars

(***************************************************************************)
(* The requests of one worker and the blockchain node: every outcome of    *)
(* the store, and the receipt that comes after the handler stopped         *)
(* waiting.  The database works.                                           *)
(***************************************************************************)
AnchorNext ==
    \/ \E u \in Users, d \in RacePayloads :
          submit_kyc("w1", u, d, TRUE, TRUE)
    \/ \E u \in Users :
          get_kyc_status("w1", u, TRUE)
    \/ \E k \in KycIdStrings, a \in Admins, d \in {"approved", "rejected"}, n \in Notes :
          verify_kyc_submission("w1", k, a, d, n, TRUE, TRUE)
    \/ \E o \in Outcomes :
          verify_kyc_submission_anchor("w1", o, TRUE)
    \/ \E k \in KycIdStrings, u \in Users, d \in UpdatePayloads \ InvalidPayloads :
          update_kyc_submission("w1", k, u, d, TRUE, TRUE)
    \/ \E tx \in chain, s \in {"mined", "reverted"} :
          receipt_after_timeout(tx, s)

AnchorSpec == Init /\ [][AnchorNext]_vars

(***************************************************************************)
(* Properties.                                                             *)
(***************************************************************************)
\* the position of the document a request id names, 0 if there is none
DocIndex(coll, kyc_id) ==
    IF \E i \in Indexes(coll) : str(coll[i]._id) = kyc_id
       THEN CHOOSE i \in Indexes(coll) : str(coll[i]._id) = kyc_id
       ELSE 0

ActiveCount(coll, user_id) ==
    Cardinality({i \in Indexes(coll) : coll[i].user_id = user_id /\ IsActive(coll[i])})

PendingCount(coll, user_id) ==
    Cardinality({i \in Indexes(coll) :
                    coll[i].user_id = user_id /\ coll[i].status = "pending"})

Recorded(kyc_id) == \E t \in blockchain_collection : t.kyc_id = kyc_id

TxHashes(ch) == {t.transaction_hash : t \in ch}

\* a step in which worker w runs a whole call of the given kind (the node's
\* late receipt is the one step that leaves every worker alone; it changes
\* the chain)
CallStep(w, op) ==
    /\ chain' = chain
    /\ inflight[w] = None
    /\ inflight'[w] = None
    /\ result'[w].op = op

\* a step in which worker w runs a decide up to the point after its status update
DecideStep(w) ==
    /\ chain' = chain
    /\ inflight[w] = None
    /\ \/ inflight'[w] = None /\ result'[w].op = "decide"
       \/ inflight'[w].kind = "decide"

\* the id that decide is about
DecideTarget(w) ==
    IF inflight'[w] = None THEN result'[w].kyc_id ELSE inflight'[w].kyc_id

\* a step in which worker w runs the blockchain store of its decide and returns
AnchorStep(w) == inflight[w].kind = "decide" /\ inflight'[w] = None

\* C1: in every reachable state each user has at most one submission whose
\* status is pending or approved.
C1_AtMostOneActivePerUser ==
    \A u \in Users : ActiveCount(kyc_collection, u) <= 1

\* C2: a submit by a user who has a pending or approved submission fails and
\* creates no record.
C2_SubmitWhileActiveFails ==
    [][\A u \in Users :
          (CallStep("w1", "submit") /\ result'["w1"].caller = u
             /\ ActiveCount(kyc_collection, u) >= 1)
          => (~result'["w1"].success /\ kyc_collection' = kyc_collection)]_vars

\* C3: the insert of a submit whose check has passed goes through although a
\* pending submission of the same user has been inserted since the check: the
\* call succeeds and the user has one more pending submission.
C3_RacingSubmitsBothInsert ==
    [][\A w \in Workers :
          (inflight[w].kind = "submit" /\ inflight'[w] = None
             /\ PendingCount(kyc_collection, inflight[w].user_id) >= 1)
          => /\ result'[w].success
             /\ PendingCount(kyc_collection', inflight[w].user_id)
                   = PendingCount(kyc_collection, inflight[w].user_id) + 1]_vars

\* two submit calls of one user have both succeeded and both their records are pending
C3_Witness ==
    /\ result["w1"].op = "submit" /\ result["w1"].success
    /\ result["w2"].op = "submit" /\ result["w2"].success
    /\ result["w1"].caller = result["w2"].caller
    /\ result["w1"].kyc_id # result["w2"].kyc_id
    /\ \A w \in Workers :
          /\ DocIndex(kyc_collection, result[w].kyc_id) # 0
          /\ kyc_collection[DocIndex(kyc_collection, result[w].kyc_id)].status = "pending"
          /\ kyc_collection[DocIndex(kyc_collection, result[w].kyc_id)].user_id
                = result[w].caller

\* C4: a decide changes the collection, starts the blockchain store or returns
\* success only when the submission it names exists and is pending, and then
\* the new status is approved or rejected; any other decide fails, changes
\* neither status nor notes and makes no blockchain call.
C4_DecideOnlyWhenPending ==
    [][\A w \in Workers :
          DecideStep(w) =>
             LET i == DocIndex(kyc_collection, DecideTarget(w))
                 pending == i # 0 /\ kyc_collection[i].status = "pending"
             IN  /\ (kyc_collection' # kyc_collection \/ inflight'[w] # None
                       \/ result'[w].success)
                    => /\ pending
                       /\ kyc_collection'[i].status \in {"approved", "rejected"}
                       /\ \A j \in Indexes(kyc_collection) \ {i} :
                             kyc_collection'[j] = kyc_collection[j]
                 /\ ~pending
                    => /\ ~result'[w].success
                       /\ inflight'[w] = None
                       /\ UNCHANGED <<kyc_collection, store_calls, chain,
                                      blockchain_collection>>]_vars

\* a decide on a submission that an earlier decide approved has failed
C4_Witness ==
    /\ result["w1"].op = "decide"
    /\ ~result["w1"].success
    /\ result["w1"].message = "KYC submission is already approved"
    /\ DocIndex(kyc_collection, result["w1"].kyc_id) # 0
    /\ kyc_collection[DocIndex(kyc_collection, result["w1"].kyc_id)].status = "approved"

\* C5: when the blockchain store of a decide(approved) fails (no transaction
\* record is written), the submission stays approved and decide returns success.
C5_AnchorFailureKeepsApproval ==
    [][\A w \in Workers :
          (AnchorStep(w) /\ blockchain_collection' = blockchain_collection)
          => LET i == DocIndex(kyc_collection, inflight[w].kyc_id)
             IN  /\ result'[w].op = "decide"
                 /\ result'[w].success
                 /\ result'[w].status = "approved"
                 /\ kyc_collection' = kyc_collection
                 /\ i # 0
                 /\ kyc_collection'[i].status = "approved"]_vars

\* a decide(approved) has returned success, its store was called, and no
\* transaction record exists for the submission
C5_Witness ==
    /\ inflight["w1"] = None
    /\ result["w1"].op = "decide"
    /\ result["w1"].success
    /\ result["w1"].status = "approved"
    /\ store_calls[result["w1"].kyc_id] = 1
    /\ ~Recorded(result["w1"].kyc_id)
    /\ kyc_collection[DocIndex(kyc_collection, result["w1"].kyc_id)].status = "approved"

\* C6: the result that decide returns for an approval whose blockchain store
\* failed differs from the result it returns for an approval that was stored.
C6_FailedAnchorResultDiffers ==
    \A w \in Workers :
       (/\ inflight[w] = None
        /\ result[w].op = "decide"
        /\ result[w].success
        /\ result[w].status = "approved"
        /\ ~Recorded(result[w].kyc_id))
       => result[w] # decide_response(result[w].caller, result[w].kyc_id, "approved",
                                      result[w].admin_notes,
                                      [success |-> TRUE,
                                       message |-> "KYC verification stored on blockchain successfully",
                                       transaction_hash |-> TxHash(result[w].kyc_id, 1)])

\* C7: the status and the notes of a decide(approved) are in the collection
\* before its blockchain store starts, the store is called for a kyc id only
\* in a state where that submission is approved, and a decide whose status
\* update did not go through fails without starting the store.
C7_PersistBeforeAnchor ==
    [][\A w \in Workers :
          /\ (inflight[w] = None /\ inflight'[w].kind = "decide")
             => LET i == DocIndex(kyc_collection', inflight'[w].kyc_id)
                IN  /\ i # 0
                    /\ kyc_collection'[i].status = "approved"
                    /\ kyc_collection'[i].admin_notes = inflight'[w].admin_notes
                    /\ store_calls' = store_calls
          /\ \A k \in KycIdStrings :
                store_calls'[k] > store_calls[k]
                => /\ DocIndex(kyc_collection, k) # 0
                   /\ kyc_collection[DocIndex(kyc_collection, k)].status = "approved"
          /\ (DecideStep(w) /\ kyc_collection' = kyc_collection)
             => /\ inflight'[w] = None
                /\ ~result'[w].success
                /\ store_calls' = store_calls]_vars

\* a decide(approved) has written the status and has not yet called the store
C7_Witness ==
    /\ inflight["w1"].kind = "decide"
    /\ store_calls[inflight["w1"].kyc_id] = 0
    /\ kyc_collection[DocIndex(kyc_collection, inflight["w1"].kyc_id)].status = "approved"

C9_UpdateRefused ==
    [][CallStep("w1", "update") =>
          LET i == DocIndex(kyc_collection, result'["w1"].kyc_id)
          IN  (\/ i = 0
               \/ kyc_collection[i].user_id # result'["w1"].caller
               \/ kyc_collection[i].status = "approved")
              => /\ ~result'["w1"].success
                 /\ result'["w1"].message \in
                       {"KYC submission not found", "Access denied",
                        "Cannot update approved KYC submission"}
                 /\ kyc_collection' = kyc_collection]_vars

\* an update of an approved submission by its owner has been refused
C9_Witness ==
    /\ result["w1"].op = "update"
    /\ ~result["w1"].success
    /\ result["w1"].message = "Cannot update approved KYC submission"
    /\ kyc_collection[DocIndex(kyc_collection, result["w1"].kyc_id)].status = "approved"
    /\ kyc_collection[DocIndex(kyc_collection, result["w1"].kyc_id)].user_id
          = result["w1"].caller

\* C10: an update by the owner, with a valid patch and no database error, of
\* a submission that is pending or rejected succeeds and leaves it pending.
C10_OwnerUpdateSucceeds ==
    [][\A k \in KycIdStrings, u \in Users, d \in UpdatePayloads :
          LET i == DocIndex(kyc_collection, k)
          IN  (/\ CallStep("w1", "update")
               /\ i # 0
               /\ kyc_collection[i].user_id = u
               /\ kyc_collection[i].status \in {"pending", "rejected"}
               /\ validate_kyc_data(d, TRUE).valid
               /\ d.face_image \in {"absent", "good"}
               /\ update_kyc_submission("w1", k, u, d, TRUE, TRUE))
              => /\ result'["w1"].success
                 /\ kyc_collection'[i].status = "pending"]_vars

\* the positions of a user's submissions
DocsOf(coll, user_id) == {i \in Indexes(coll) : coll[i].user_id = user_id}

\* C11: status(user) returns the status of the user's most recently submitted
\* record, and not_submitted when the user has no submission.
C11_StatusReportsLatest ==
    [][\A u \in Users :
          (CallStep("w1", "status") /\ result'["w1"].caller = u)
          => IF DocsOf(kyc_collection, u) = {}
                THEN result'["w1"].status = "not_submitted"
                ELSE \E i \in DocsOf(kyc_collection, u) :
                        /\ \A j \in DocsOf(kyc_collection, u) :
                              kyc_collection[j].submission_date
                                 <= kyc_collection[i].submission_date
                        /\ result'["w1"].status = kyc_collection[i].status]_vars

\* the positions of a user's approved submissions
ApprovedOf(coll, user_id) ==
    {i \in DocsOf(coll, user_id) : coll[i].status = "approved"}

\* what a verify returns when one of its database calls raised
VerifyDbFailure ==
    {"No KYC submission found for user", "Face verification failed due to system error"}

C13_VerifyFailsWithoutRecord ==
    [][\A u \in Users :
          (/\ CallStep("w1", "verify")
           /\ result'["w1"].caller = u
           /\ \/ ~decode_base64_image(result'["w1"].live_image)
              \/ \A i \in ApprovedOf(kyc_collection, u) :
                    ~decode_base64_image(kyc_collection[i].face_image))
          => /\ ~result'["w1"].success
             /\ face_verification_collection' = face_verification_collection]_vars

\* a verify of a user whose only submissions are pending or rejected has
\* failed, and no record has been written
C13_Witness ==
    /\ result["w1"].op = "verify"
    /\ ~result["w1"].success
    /\ result["w1"].message = "No approved KYC submission with face image found"
    /\ DocsOf(kyc_collection, result["w1"].caller) # {}
    /\ ApprovedOf(kyc_collection, result["w1"].caller) = {}
    /\ face_verification_collection = <<>>

\* C14: the record a verify appends names the user's approved submission with
\* the latest submission date.
C14_VerifyUsesLatestApproved ==
    [][\A u \in Users :
          (/\ CallStep("w1", "verify")
           /\ result'["w1"].caller = u
           /\ Len(face_verification_collection')
                 = Len(face_verification_collection) + 1)
          => LET r == face_verification_collection'[Len(face_verification_collection')]
             IN  \E i \in ApprovedOf(kyc_collection, u) :
                    /\ \A j \in ApprovedOf(kyc_collection, u) :
                          kyc_collection[j].submission_date
                             <= kyc_collection[i].submission_date
                    /\ r.kyc_submission_id = str(kyc_collection[i]._id)]_vars

Failed(kyc_id) ==
    blockchain_result[kyc_id] # None /\ ~blockchain_result[kyc_id].success

TxsOf(ch, kyc_id) == {t \in ch : t.kyc_id = kyc_id}

\* C15: every record of blockchain_collection belongs to a transaction that
\* was sent and whose receipt reported success to a store call that returned
\* success; a store call that returned failure (nothing sent, a receipt with a
\* failed status, no receipt in time) has left no record, and no record names
\* a transaction that is reverted or still without receipt.
C15_RecordOnlyAfterConfirmation ==
    /\ \A r \in blockchain_collection :
          /\ \E t \in chain : /\ t.transaction_hash = r.transaction_hash
                              /\ t.kyc_id = r.kyc_id
                              /\ t.state = "mined"
          /\ blockchain_result[r.kyc_id] # None
          /\ blockchain_result[r.kyc_id].success
    /\ \A k \in KycIdStrings : Failed(k) => ~Recorded(k)
    /\ \A t \in chain :
          t.state \in {"pending", "reverted"}
          => \A r \in blockchain_collection : r.transaction_hash # t.transaction_hash

\* one approval is recorded with its mined transaction, and the store of
\* another, whose receipt reported a failed transaction, has left no record
C15_Witness ==
    /\ \E r \in blockchain_collection, t \in chain :
          t.transaction_hash = r.transaction_hash /\ t.state = "mined"
    /\ \E t \in chain : /\ t.state = "reverted"
                        /\ Failed(t.kyc_id)
                        /\ ~Recorded(t.kyc_id)

\* C16: a transaction that is sent and still without receipt belongs to a
\* store call that returned failure and wrote no record (and the node can
\* still mine it: the witness).
C16_TimeoutReportsFailure ==
    \A t \in chain :
       t.state = "pending" => (Failed(t.kyc_id) /\ ~Recorded(t.kyc_id))

\* the store call for a kyc id returned failure, there is no record of it in
\* blockchain_collection, and the chain holds its verification
C16_Witness ==
    \E t \in chain :
       /\ t.state = "mined"
       /\ Failed(t.kyc_id)
       /\ ~Recorded(t.kyc_id)
       /\ LET i == DocIndex(kyc_collection, t.kyc_id)
          IN  i # 0 /\ kyc_collection[i].status = "approved"

\* C17: there is at most one store call and at most one sent transaction per
\* submission, and once the store call of a submission has returned failure
\* no step calls the store for it again, sends a transaction for it or writes
\* a record of it.
C17_AnchorAtMostOnce ==
    [][\A k \in KycIdStrings :
          /\ store_calls'[k] <= 1
          /\ Cardinality(TxsOf(chain', k)) <= store_calls'[k]
          /\ Failed(k)
             => /\ store_calls'[k] = store_calls[k]
                /\ blockchain_result'[k] = blockchain_result[k]
                /\ TxHashes(TxsOf(chain', k)) = TxHashes(TxsOf(chain, k))
                /\ \A r \in blockchain_collection' : r.kyc_id # k]_vars

\* after the store for an approved submission failed, another decide on the
\* same submission has been turned down, and nothing was sent for it
C17_Witness ==
    /\ result["w1"].op = "decide"
    /\ ~result["w1"].success
    /\ result["w1"].message = "KYC submission is already approved"
    /\ result["w1"].kyc_id \in KycIdStrings
    /\ Failed(result["w1"].kyc_id)
    /\ store_calls[result["w1"].kyc_id] = 1
    /\ TxsOf(chain, result["w1"].kyc_id) = {}
    /\ ~Recorded(result["w1"].kyc_id)

OperationTypes == {"kyc_verification", "identity_update", "kyc_revocation"}

\* C18: every record of blockchain_collection carries an operation type, one
\* of kyc_verification, identity_update, kyc_revocation.
C18_RecordsCarryOperationType ==
    \A r \in blockchain_collection :
       /\ "operation_type" \in DOMAIN r
       /\ r.operation_type \in OperationTypes

\* C19: no step changes or removes a record of face_verification_collection
\* or of blockchain_collection: each step leaves the collections alone or
\* adds records to them.
C19_RecordsAppendOnly ==
    [][/\ blockchain_collection \subseteq blockchain_collection'
       /\ Len(face_verification_collection) <= Len(face_verification_collection')
       /\ SubSeq(face_verification_collection', 1, Len(face_verification_collection))
             = face_verification_collection]_vars

\* two verifications of one user and an anchored approval are on record
C19_Witness ==
    /\ Len(face_verification_collection) >= 2
    /\ face_verification_collection[1].user_id = face_verification_collection[2].user_id
    /\ blockchain_collection # {}

\* C20: a status call does not answer success with not_submitted for a user
\* who has a submission, which is what it would make of a failed read.
C20_StatusReadFailureIsReported ==
    [][\A u \in Users :
          (/\ CallStep("w1", "status")
           /\ result'["w1"].caller = u
           /\ DocsOf(kyc_collection, u) # {})
          => ~(result'["w1"].success /\ result'["w1"].status = "not_submitted")]_vars

\* C28: submit never creates a submission for a user who has a pending or
\* approved submission, also when the lookup of the user's submissions raises
\* a database error: no step adds a document of a user who had an active one.
C28_NoInsertForActiveUser ==
    [][\A u \in Users :
          ActiveCount(kyc_collection, u) >= 1
          => Cardinality(DocsOf(kyc_collection', u))
                = Cardinality(DocsOf(kyc_collection, u))]_vars

(***************************************************************************)
(* The routes of backend/routes/kyc_routes.py around the service: who the  *)
(* token says the caller is, and the HTTP status of the response.          *)
(***************************************************************************)
\* the 'user_role' claim of the caller's token: register_user issues 'user'
\* tokens, the tokens of the admins carry 'admin'
user_role(user_id) == IF user_id \in Admins THEN "admin" ELSE "user"

\* KYCService.get_kyc_details: the returned dict for the fetched document
get_kyc_details(kyc_id, kyc_submission, user_id, admin) ==
    IF kyc_submission = None
       THEN Response("details", user_id, kyc_id, FALSE, "KYC submission not found",
                     "none", NoNotes)
    ELSE IF ~admin /\ kyc_submission.user_id # user_id
       THEN Response("details", user_id, kyc_id, FALSE, "Access denied", "none", NoNotes)
    ELSE Response("details", user_id, kyc_id, TRUE, "none", kyc_submission.status,
                  IF admin THEN kyc_submission.admin_notes ELSE NoNotes)

\* GET /details/<kyc_id>, the whole request
get_kyc_details_route(w, caller, kyc_id, find_ok) ==
    /\ inflight[w] = None
    /\ LET is_admin == user_role(caller) = "admin"
           kyc_submission == get_kyc_submission_by_id(kyc_collection, kyc_id, find_ok)
       IN  result' = [result EXCEPT ![w] =
                         get_kyc_details(kyc_id, kyc_submission, caller, is_admin)]
    /\ UNCHANGED <<users_collection, kyc_collection, blockchain_collection,
                   face_verification_collection, chain, store_calls, blockchain_result,
                   inflight>>

\* the HTTP status GET /details/<kyc_id> answers a service result with
get_kyc_details_status_code(service_result) ==
    IF service_result.success THEN 200 ELSE 400

\* the HTTP status PUT /update/<kyc_id> answers a service result with
update_kyc_status_code(service_result) ==
    IF service_result.success THEN 200 ELSE 400

\* the HTTP status of the response to the request a worker served last
status_code(service_result) ==
    IF service_result.op = "details" THEN get_kyc_details_status_code(service_result)
    ELSE update_kyc_status_code(service_result)

(***************************************************************************)
(* Owners, other users and admins asking for and updating submissions.     *)
(***************************************************************************)
DetailsNext ==
    \/ \E u \in Users, d \in FacePayloads :
          submit_kyc("w1", u, d, TRUE, TRUE)
    \/ \E k \in KycIdStrings, a \in Admins, d \in {"approved", "rejected"}, n \in Notes :
          verify_kyc_submission("w1", k, a, d, n, TRUE, TRUE)
    \/ verify_kyc_submission_anchor("w1", "confirmed", TRUE)
    \/ \E k \in KycIdStrings, c \in Users \cup Admins, f \in Faults \ {"write"} :
          get_kyc_details_route("w1", c, k, f # "read")
    \/ \E k \in KycIdStrings, u \in Users, d \in UpdatePayloads, f \in Faults :
          update_kyc_submission("w1", k, u, d, f # "read", f # "write")

DetailsSpec == Init /\ [][DetailsNext]_vars

\* C21: for update and for details, a request on a submission that does not
\* exist is answered with the not-found status 404 and a request on another
\* user's submission with the forbidden status 403.
C21_NotFoundAndForbiddenDistinct ==
    \A w \in Workers :
       result[w].op \in {"update", "details"}
       => /\ result[w].message = "KYC submission not found"
                => status_code(result[w]) = 404
          /\ result[w].message = "Access denied"
                => status_code(result[w]) = 403

(***************************************************************************)
(* The decision endpoints: POST /admin/verify/<kyc_id> of kyc_routes.py    *)
(* and POST /kyc/bulk-action of admin_routes.py.                           *)
(***************************************************************************)
\* variant: the decorator lets every authenticated caller through
require_admin_any_user(caller) == TRUE

\* the decorator of kyc_routes.py: whether the request gets to the handler
require_admin(caller) == user_role(caller) = "admin"

\* the decorator of admin_routes.py: whether the request gets to the handler
require_admin_auth(caller) == user_role(caller) = "admin"

\* a response of a decision endpoint that has not got to the service
Refused(w, op, caller, kyc_id, message, code) ==
    /\ result' = [result EXCEPT ![w] =
          [op |-> op, caller |-> caller, kyc_id |-> kyc_id, success |-> FALSE,
           message |-> message, status |-> "none", admin_notes |-> NoNotes,
           status_code |-> code]]
    /\ UNCHANGED <<users_collection, kyc_collection, blockchain_collection,
                   face_verification_collection, chain, store_calls, blockchain_result,
                   inflight>>

\* POST /admin/verify/<kyc_id> up to the point right after update_kyc_status of
\* the service call; verify_kyc_submission_anchor is the rest of the request
admin_verify_kyc(w, caller, kyc_id, decision, notes, find_ok, update_ok) ==
    /\ inflight[w] = None
    /\ IF ~require_admin(caller)
          THEN Refused(w, "decide", caller, kyc_id, "Admin access required", 403)
       ELSE IF decision \notin {"approved", "rejected"}
          THEN Refused(w, "decide", caller, kyc_id,
                       "Decision must be approved or rejected", 400)
       ELSE verify_kyc_submission(w, kyc_id, caller, decision, notes, find_ok, update_ok)

BulkActions == {"approve", "reject", "revoke"}

\* the lists of ids a bulk request carries: none, one, or two ids that can be
\* the same one
BulkIdLists ==
    {<<>>} \cup {<<k>> : k \in KycIdStrings}
           \cup {<<k, l>> : k \in KycIdStrings, l \in KycIdStrings}

\* POST /kyc/bulk-action up to the loop
bulk_kyc_action(w, caller, kyc_ids, action, notes) ==
    /\ inflight[w] = None
    /\ IF ~require_admin_auth(caller)
          THEN Refused(w, "bulk", caller, NoId, "Admin authentication required", 401)
       ELSE IF action \notin {"approve", "reject"}
          THEN Refused(w, "bulk", caller, NoId,
                       "Invalid action. Must be approve or reject", 400)
       ELSE /\ inflight' = [inflight EXCEPT ![w] =
                   [kind |-> "bulk", admin_id |-> caller, kyc_ids |-> kyc_ids,
                    decision |-> IF action = "approve" THEN "approved" ELSE "rejected",
                    notes |-> notes, next |-> 1,
                    successful_actions |-> <<>>, failed_actions |-> <<>>]]
            /\ UNCHANGED <<users_collection, kyc_collection, blockchain_collection,
                           face_verification_collection, chain, store_calls,
                           blockchain_result, result>>

\* variant: an id whose decide failed is not put on a list
bulk_append_success_only(call, kyc_id, service_result) ==
    [call EXCEPT !.next = @ + 1,
                 !.successful_actions =
                     IF service_result.success THEN Append(@, kyc_id) ELSE @]

\* the end of one pass of the loop: the id goes to one of the two lists
bulk_append(call, kyc_id, service_result) ==
    [call EXCEPT !.next = @ + 1,
                 !.successful_actions =
                     IF service_result.success THEN Append(@, kyc_id) ELSE @,
                 !.failed_actions =
                     IF service_result.success THEN @
                     ELSE Append(@, [kyc_id |-> kyc_id,
                                     error |-> service_result.message])]

\* one pass of the loop: a whole call of KYCService.verify_kyc_submission,
\* its blockchain store included
bulk_kyc_action_step(w, find_ok, update_ok, outcome, record_ok) ==
    /\ inflight[w].kind = "bulk"
    /\ inflight[w].next <= Len(inflight[w].kyc_ids)
    /\ LET call == inflight[w]
           kyc_id == call.kyc_ids[call.next]
           admin_notes == <<call.admin_id, call.notes>>
           kyc_submission == get_kyc_submission_by_id(kyc_collection, kyc_id, find_ok)
           check == decide_checks(call.decision, kyc_submission)
           updated == update_kyc_status(kyc_collection, kyc_id, call.decision,
                                        admin_notes, update_ok)
           then == IF check # "ok" THEN "failed"
                   ELSE after_update(call.decision, updated.ok)
           stored == store_kyc_verification(kyc_submission.user_id, kyc_id,
                                            call.admin_id, outcome, record_ok)
           service_result ==
               IF check # "ok"
                  THEN Response("decide", call.admin_id, kyc_id, FALSE, check,
                                "none", NoNotes)
               ELSE IF then = "failed"
                  THEN Response("decide", call.admin_id, kyc_id, FALSE,
                                "Failed to update KYC status", "none", NoNotes)
               ELSE decide_response(call.admin_id, kyc_id, call.decision, admin_notes,
                                    IF then = "anchor" THEN stored.result ELSE None)
       IN  /\ kyc_collection' = IF check = "ok" THEN updated.coll ELSE kyc_collection
           /\ IF then = "anchor"
                 THEN /\ store_calls' = [store_calls EXCEPT ![kyc_id] = @ + 1]
                      /\ blockchain_result' = [blockchain_result EXCEPT ![kyc_id] =
                                               [success |-> stored.result.success]]
                      /\ chain' = stored.chain
                      /\ blockchain_collection' = stored.blockchain_collection
                 ELSE UNCHANGED <<store_calls, blockchain_result, chain,
                                  blockchain_collection>>
           /\ inflight' = [inflight EXCEPT ![w] = bulk_append(call, kyc_id, service_result)]
    /\ UNCHANGED <<users_collection, face_verification_collection, result>>

\* the response after the loop
bulk_kyc_action_return(w) ==
    /\ inflight[w].kind = "bulk"
    /\ inflight[w].next > Len(inflight[w].kyc_ids)
    /\ LET call == inflight[w]
       IN  result' = [result EXCEPT ![w] =
              [op |-> "bulk", caller |-> call.admin_id, kyc_id |-> NoId,
               success |-> TRUE, message |-> "Bulk action completed",
               status |-> "none", admin_notes |-> NoNotes, status_code |-> 200,
               kyc_ids |-> call.kyc_ids,
               successful_actions |-> call.successful_actions,
               failed_actions |-> call.failed_actions,
               success_count |-> Len(call.successful_actions),
               failure_count |-> Len(call.failed_actions)]]
    /\ inflight' = [inflight EXCEPT ![w] = None]
    /\ UNCHANGED <<users_collection, kyc_collection, blockchain_collection,
                   face_verification_collection, chain, store_calls, blockchain_result>>

(***************************************************************************)
(* Users and admins at the decision endpoints, one request at a time.      *)
(***************************************************************************)
DecisionPayloads == {d \in FacePayloads : d.face_image = "good"}

DecisionNext ==
    \/ \E u \in Users, d \in DecisionPayloads :
          submit_kyc("w1", u, d, TRUE, TRUE)
    \/ \E k \in KycIdStrings, c \in Users \cup Admins, d \in Decisions, n \in Notes :
          admin_verify_kyc("w1", c, k, d, n, TRUE, TRUE)
    \/ verify_kyc_submission_anchor("w1", "confirmed", TRUE)
    \/ \E c \in Users \cup Admins, ids \in BulkIdLists, a \in BulkActions, n \in Notes :
          bulk_kyc_action("w1", c, ids, a, n)
    \/ \E f \in Faults \ {"read"} :
          bulk_kyc_action_step("w1", TRUE, f # "write", "confirmed", TRUE)
    \/ bulk_kyc_action_return("w1")

DecisionSpec == Init /\ [][DecisionNext]_vars

\* the caller of the request worker w is serving in this step
Actor(w) ==
    IF inflight[w] # None THEN inflight[w].admin_id
    ELSE IF inflight'[w] # None THEN inflight'[w].admin_id
    ELSE result'[w].caller

\* worker w takes this step
Acts(w) == inflight'[w] # inflight[w] \/ result'[w] # result[w]

\* C22: a submission's status becomes approved or rejected only in a step of a
\* decision request (single or bulk) whose caller carries the admin role, and
\* a decision request of a caller without the admin role is refused and
\* changes nothing.
C22_DecisionIsAdminOnly ==
    [][/\ \A i \in Indexes(kyc_collection) :
             (kyc_collection'[i].status # kyc_collection[i].status
                /\ kyc_collection'[i].status \in {"approved", "rejected"})
             => \E w \in Workers :
                   /\ Acts(w)
                   /\ kyc_collection[i].status = "pending"
                   /\ \/ inflight[w].kind \in {"decide", "bulk"}
                      \/ inflight'[w].kind \in {"decide", "bulk"}
                      \/ result'[w].op = "decide"
                   /\ user_role(Actor(w)) = "admin"
       /\ \A w \in Workers :
             (Acts(w) /\ inflight[w] = None /\ inflight'[w] = None
                /\ result'[w].op \in {"decide", "bulk"}
                /\ user_role(result'[w].caller) # "admin")
             => /\ ~result'[w].success
                /\ result'[w].message \in {"Admin access required",
                                           "Admin authentication required"}
                /\ UNCHANGED <<users_collection, kyc_collection, blockchain_collection,
                               face_verification_collection, chain, store_calls,
                               blockchain_result>>]_vars

\* a user's bulk request has been refused while a submission is pending, and
\* an admin has approved another submission
C22_Witness ==
    /\ result["w1"].op = "bulk"
    /\ result["w1"].caller \in Users
    /\ result["w1"].status_code = 401
    /\ \E i \in Indexes(kyc_collection) : kyc_collection[i].status = "pending"
    /\ \E i \in Indexes(kyc_collection) :
          /\ kyc_collection[i].status = "approved"
          /\ kyc_collection[i].admin_notes[1] \in Admins

\* the number of places of a list that hold a given id
Count(ids, kyc_id) == Cardinality({i \in Indexes(ids) : ids[i] = kyc_id})

FailedIds(failed_actions) == [i \in Indexes(failed_actions) |-> failed_actions[i].kyc_id]

\* C30: a bulk approve/reject puts every listed id on exactly one of
\* successful_actions and failed_actions, success_count plus failure_count is
\* the length of the list, a failing id does not stop the ids after it from
\* being processed, and an id listed twice succeeds at most once.
C30_BulkDecidesEachId ==
    \A w \in Workers :
       /\ inflight[w].kind = "bulk"
          => Len(inflight[w].successful_actions) + Len(inflight[w].failed_actions)
                = inflight[w].next - 1
       /\ (result[w].op = "bulk" /\ result[w].status_code = 200)
          => /\ result[w].success_count = Len(result[w].successful_actions)
             /\ result[w].failure_count = Len(result[w].failed_actions)
             /\ result[w].success_count + result[w].failure_count
                   = Len(result[w].kyc_ids)
             /\ \A k \in KycIdStrings :
                   /\ Count(result[w].successful_actions, k)
                         + Count(FailedIds(result[w].failed_actions), k)
                         = Count(result[w].kyc_ids, k)
                   /\ Count(result[w].successful_actions, k) <= 1

\* a bulk approve that listed one id twice: the first pass approved it, the
\* second was turned down because it was approved already
C30_Witness ==
    /\ result["w1"].op = "bulk"
    /\ result["w1"].status_code = 200
    /\ Len(result["w1"].kyc_ids) = Len(<<"first", "second">>)
    /\ result["w1"].kyc_ids[1] = result["w1"].kyc_ids[2]
    /\ result["w1"].successful_actions = <<result["w1"].kyc_ids[1]>>
    /\ Len(result["w1"].failed_actions) = 1
    /\ result["w1"].failed_actions[1].error = AlreadyIs("approved")

(***************************************************************************)
(* validate_kyc_data of backend/utils/validators.py field by field.  A     *)
(* field of the record is "absent" (no such key, or a falsy value), "ok"   *)
(* (its validator returns True) or "bad" (its validator returns False);    *)
(* document_type has no validator.  The flags of KycData sum a record up:  *)
(* missing = a required field is absent, bad = a present field is bad.     *)
(***************************************************************************)
FieldValues == {"absent", "ok", "bad"}

\* required_fields, in the order of the list
RequiredFields == <<"full_name", "phone_number", "email", "document_type">>

\* the fields with a format check, in the order of the checks
CheckedFields == <<"full_name", "email", "phone_number", "face_image">>

KycFields == {"full_name", "phone_number", "email", "document_type", "face_image"}

\* a request body that is no JSON object: the membership tests raise
NotADict == [f \in KycFields |-> "raises"]

KycRecords == [KycFields -> FieldValues] \cup {NotADict}

FormatError(field) == <<"Invalid format", field>>

\* variant: the required fields are checked whatever the partial flag says
validate_kyc_data_fields_always_required(kyc_data, partial) ==
    IF kyc_data = NotADict
       THEN [valid |-> FALSE, errors |-> <<<<"Validation error", "TypeError">>>>]
       ELSE LET missing == SelectSeq(RequiredFields, LAMBDA f : kyc_data[f] = "absent")
                invalid == SelectSeq(CheckedFields, LAMBDA f : kyc_data[f] = "bad")
                errors ==
                    [i \in Indexes(missing) |-> <<"Missing required field", missing[i]>>]
                    \o [i \in Indexes(invalid) |-> FormatError(invalid[i])]
            IN  [valid |-> Len(errors) = 0, errors |-> errors]

\* validate_kyc_data: the returned dict
validate_kyc_data_fields(kyc_data, partial) ==
    IF kyc_data = NotADict
       THEN [valid |-> FALSE, errors |-> <<<<"Validation error", "TypeError">>>>]
       ELSE LET missing == IF partial THEN <<>>
                           ELSE SelectSeq(RequiredFields,
                                          LAMBDA f : kyc_data[f] = "absent")
                invalid == SelectSeq(CheckedFields, LAMBDA f : kyc_data[f] = "bad")
                errors ==
                    [i \in Indexes(missing) |-> <<"Missing required field", missing[i]>>]
                    \o [i \in Indexes(invalid) |-> FormatError(invalid[i])]
            IN  [valid |-> Len(errors) = 0, errors |-> errors]

\* a worker holds a record to validate
ValidationInit ==
    /\ kyc_collection = <<>>
    /\ blockchain_collection = {}
    /\ chain = {}
    /\ face_verification_collection = <<>>
    /\ users_collection = <<>>
    /\ store_calls = [k \in KycIdStrings |-> 0]
    /\ blockchain_result = [k \in KycIdStrings |-> None]
    /\ \E d \in KycRecords :
          inflight = [w \in Workers |->
                         IF w = "w1" THEN [kind |-> "validate", kyc_data |-> d] ELSE None]
    /\ result = [w \in Workers |-> NoResult]

\* the record is validated in both modes
validate_both(w) ==
    /\ inflight[w].kind = "validate"
    /\ result' = [result EXCEPT ![w] =
          [op |-> "validate", kyc_data |-> inflight[w].kyc_data,
           full |-> validate_kyc_data_fields(inflight[w].kyc_data, FALSE),
           partial |-> validate_kyc_data_fields(inflight[w].kyc_data, TRUE)]]
    /\ inflight' = [inflight EXCEPT ![w] = None]
    /\ UNCHANGED <<users_collection, kyc_collection, blockchain_collection,
                   face_verification_collection, chain, store_calls, blockchain_result>>

ValidationNext == \E w \in Workers : validate_both(w)

ValidationSpec == ValidationInit /\ [][ValidationNext]_vars

Elements(errors) == {errors[i] : i \in Indexes(errors)}

\* C23: for every record, partial validation reports no missing required
\* field, its errors are among the errors of full validation of the same
\* record, and in both modes valid is true exactly when there is no error.
C23_PartialValidationIsWeaker ==
    \A w \in Workers :
       result[w].op = "validate"
       => /\ \A e \in Elements(result[w].partial.errors) :
                e[1] # "Missing required field"
          /\ Elements(result[w].partial.errors) \subseteq Elements(result[w].full.errors)
          /\ result[w].full.valid <=> result[w].full.errors = <<>>
          /\ result[w].partial.valid <=> result[w].partial.errors = <<>>

\* a record without a name and with a bad email: full validation reports
\* both, partial validation the email only
C23_Witness ==
    /\ result["w1"].op = "validate"
    /\ result["w1"].kyc_data # NotADict
    /\ result["w1"].kyc_data["full_name"] = "absent"
    /\ result["w1"].kyc_data["email"] = "bad"
    /\ result["w1"].partial.errors = <<FormatError("email")>>
    /\ Len(result["w1"].full.errors) > Len(result["w1"].partial.errors)
    /\ ~result["w1"].partial.valid

(***************************************************************************)
(* Users: registration and profile (backend/routes/auth_routes.py), the    *)
(* user functions of the repository, and the activation endpoints of       *)
(* backend/routes/admin_routes.py.  A user document carries the fields the *)
(* endpoints read or write: email, full_name, is_active and kyc_status.    *)
(***************************************************************************)
\* the ids insert_one gives to the users, in the order of insertion
UserIds == <<"u1", "u2">>

UserObjectId(user_id) == <<"ObjectId", user_id>>

\* addresses as the client sends them; the last one fails validate_email
Emails == {"a@x.com", "A@x.com", "b@x.com", "not an email"}

\* email.lower().strip()
lower(email) == IF email = "A@x.com" THEN "a@x.com" ELSE email

validate_email(email) == email # "not an email"

\* validate_user_data: email, full_name and phone_number are required (a
\* phone number goes with the name here)
validate_user_data(user_data) ==
    [valid |-> /\ "email" \in DOMAIN user_data
               /\ "full_name" \in DOMAIN user_data
               /\ validate_email(user_data.email)]

\* find_one({"email": email}); None also when the call raises
get_user_by_email(coll, email, db_ok) ==
    IF db_ok /\ \E i \in Indexes(coll) : coll[i].email = email
       THEN coll[CHOOSE i \in Indexes(coll) : coll[i].email = email]
       ELSE None

\* find_one({"_id": ObjectId(user_id)}); None also when the call raises
get_user_by_id(coll, user_id, db_ok) ==
    IF db_ok /\ FindById(coll, UserObjectId(user_id)) # 0
       THEN coll[FindById(coll, UserObjectId(user_id))]
       ELSE None

\* insert_one under the unique index on email; the function re-raises
create_user(coll, user_data, db_ok) ==
    IF ~db_ok \/ \E i \in Indexes(coll) : coll[i].email = user_data.email
       THEN [coll |-> coll, raised |-> TRUE, user_id |-> "none"]
       ELSE [coll |-> Append(coll, [_id |-> UserObjectId(UserIds[Len(coll) + 1]),
                                    email |-> user_data.email,
                                    full_name |-> user_data.full_name,
                                    is_active |-> TRUE,
                                    kyc_status |-> user_data.kyc_status]),
             raised |-> FALSE,
             user_id |-> UserIds[Len(coll) + 1]]

\* update_one({"_id": ObjectId(user_id)}, {"$set": update_data})
update_user(coll, user_id, update_data, db_ok) ==
    IF ~db_ok THEN [coll |-> coll, ok |-> FALSE]
    ELSE LET r == update_one(coll, UserObjectId(user_id), update_data)
         IN  [coll |-> r.coll, ok |-> r.modified_count > 0]

\* the response of a users endpoint, with the request it answers
Reply(op, caller, target, success, message, code) ==
    [op |-> op, caller |-> caller, kyc_id |-> NoId, success |-> success,
     message |-> message, status |-> "none", admin_notes |-> NoNotes,
     target |-> target, status_code |-> code]

\* POST /register
register_user(w, email, lookup_ok, insert_ok) ==
    /\ inflight[w] = None
    /\ LET data == [email |-> email, full_name |-> "name"]
           existing == get_user_by_email(users_collection, data.email, lookup_ok)
           user_data == [email |-> lower(data.email), full_name |-> data.full_name,
                         kyc_status |-> "not_submitted"]
           created == create_user(users_collection, user_data, insert_ok)
       IN  IF ~validate_user_data(data).valid
              THEN /\ result' = [result EXCEPT ![w] =
                         Reply("register", "none", email, FALSE, "Validation failed", 400)]
                   /\ UNCHANGED users_collection
           ELSE IF existing # None
              THEN /\ result' = [result EXCEPT ![w] =
                         Reply("register", "none", email, FALSE,
                               "User with this email already exists", 409)]
                   /\ UNCHANGED users_collection
           ELSE IF created.raised
              THEN /\ result' = [result EXCEPT ![w] =
                         Reply("register", "none", email, FALSE,
                               "Registration failed due to system error", 500)]
                   /\ UNCHANGED users_collection
           ELSE /\ Len(users_collection) < Len(UserIds)
                /\ result' = [result EXCEPT ![w] =
                      Reply("register", created.user_id, email, TRUE,
                            "User registered successfully", 201)]
                /\ users_collection' = created.coll
    /\ UNCHANGED <<kyc_collection, blockchain_collection, face_verification_collection,
                   chain, store_calls, blockchain_result, inflight>>

updatable_fields == {"full_name"}

\* the bodies of a profile update: a new name, a field that is not
\* updatable, both
ProfileData ==
    {[full_name |-> "new name"], [kyc_status |-> "approved"],
     [full_name |-> "new name", kyc_status |-> "approved"]}

\* PUT /user/<user_id>, sent with an Authorization header
update_user_profile(w, user_id, data, find_ok, write_ok) ==
    /\ inflight[w] = None
    /\ LET user == get_user_by_id(users_collection, user_id, find_ok)
           update_data == [f \in DOMAIN data \cap updatable_fields |-> data[f]]
           updated == update_user(users_collection, user_id, update_data, write_ok)
           Answer(success, message, code) ==
               result' = [result EXCEPT ![w] =
                   Reply("profile", user_id, user_id, success, message, code)]
       IN  IF user = None
              THEN Answer(FALSE, "User not found", 404) /\ UNCHANGED users_collection
           ELSE IF DOMAIN update_data = {}
              THEN Answer(TRUE, "No valid fields to update", 200)
                   /\ UNCHANGED users_collection
           ELSE IF ~validate_user_data(update_data).valid
              THEN Answer(FALSE, "Validation failed", 400) /\ UNCHANGED users_collection
           ELSE /\ users_collection' = updated.coll
                /\ IF updated.ok
                      THEN Answer(TRUE, "User profile updated successfully", 200)
                      ELSE Answer(FALSE, "Failed to update user profile", 500)
    /\ UNCHANGED <<kyc_collection, blockchain_collection, face_verification_collection,
                   chain, store_calls, blockchain_result, inflight>>

valid_actions == {"approve", "reject", "revoke", "update"}

\* validate_admin_action; the ids of the admins have three characters or more
validate_admin_action(action_data) ==
    [valid |-> /\ action_data.admin_id # "none"
               /\ action_data.action_type \in valid_actions]

\* POST /users/<user_id>/deactivate
deactivate_user(w, caller, user_id, write_ok) ==
    /\ inflight[w] = None
    /\ LET action_data == [admin_id |-> caller, action_type |-> "deactivate"]
           update_data == [is_active |-> FALSE]
           updated == update_user(users_collection, user_id, update_data, write_ok)
           Answer(success, message, code) ==
               result' = [result EXCEPT ![w] =
                   Reply("deactivate", caller, user_id, success, message, code)]
       IN  IF ~require_admin_auth(caller)
              THEN Answer(FALSE, "Admin authentication required", 401)
                   /\ UNCHANGED users_collection
           ELSE IF ~validate_admin_action(action_data).valid
              THEN Answer(FALSE, "Validation failed", 400) /\ UNCHANGED users_collection
           ELSE /\ users_collection' = updated.coll
                /\ IF updated.ok
                      THEN Answer(TRUE, "User deactivated successfully", 200)
                      ELSE Answer(FALSE, "Failed to deactivate user", 500)
    /\ UNCHANGED <<kyc_collection, blockchain_collection, face_verification_collection,
                   chain, store_calls, blockchain_result, inflight>>

\* variant: the activation also resets the user's kyc_status
activate_update_data_with_status(admin_id) ==
    [is_active |-> TRUE, kyc_status |-> "pending"]

\* update_data of activate_user, as far as the model's fields go
activate_update_data(admin_id) == [is_active |-> TRUE]

\* POST /users/<user_id>/activate
activate_user(w, caller, user_id, write_ok) ==
    /\ inflight[w] = None
    /\ LET updated == update_user(users_collection, user_id,
                                  activate_update_data(caller), write_ok)
           Answer(success, message, code) ==
               result' = [result EXCEPT ![w] =
                   Reply("activate", caller, user_id, success, message, code)]
       IN  IF ~require_admin_auth(caller)
              THEN Answer(FALSE, "Admin authentication required", 401)
                   /\ UNCHANGED users_collection
           ELSE /\ users_collection' = updated.coll
                /\ IF updated.ok
                      THEN Answer(TRUE, "User activated successfully", 200)
                      ELSE Answer(FALSE, "Failed to activate user", 500)
    /\ UNCHANGED <<kyc_collection, blockchain_collection, face_verification_collection,
                   chain, store_calls, blockchain_result, inflight>>

\* the users that hold a token: the ones that have registered
Registered == {UserIds[i] : i \in Indexes(users_collection)}

(***************************************************************************)
(* Registration, the profile and activation endpoints, and the workflow of *)
(* the registered users.                                                   *)
(***************************************************************************)
UserNext ==
    \/ \E e \in Emails, f \in Faults :
          register_user("w1", e, f # "read", f # "write")
    \/ \E u \in Users, d \in ProfileData, f \in Faults :
          update_user_profile("w1", u, d, f # "read", f # "write")
    \/ \E c \in Users \cup Admins, u \in Users, f \in Faults \ {"read"} :
          deactivate_user("w1", c, u, f # "write")
    \/ \E c \in Users \cup Admins, u \in Users, f \in Faults \ {"read"} :
          activate_user("w1", c, u, f # "write")
    \/ \E u \in Registered, d \in DecisionPayloads :
          submit_kyc("w1", u, d, TRUE, TRUE)
    \/ \E k \in KycIdStrings, a \in Admins, d \in {"approved", "rejected"}, n \in Notes :
          verify_kyc_submission("w1", k, a, d, n, TRUE, TRUE)
    \/ verify_kyc_submission_anchor("w1", "confirmed", TRUE)
    \/ \E u \in Registered :
          get_kyc_status("w1", u, TRUE)
    \/ \E k \in KycIdStrings, u \in Registered, d \in DecisionPayloads :
          update_kyc_submission("w1", k, u, d, TRUE, TRUE)
    \/ \E u \in Registered :
          verify_face_with_stored_image("w1", u, "same", TRUE, TRUE)

UserSpec == Init /\ [][UserNext]_vars

\* the position of the user with the given id, 0 if there is none
UserIndex(coll, user_id) == FindById(coll, UserObjectId(user_id))

\* C24: a registration whose email, lower-cased, is the stored email of a
\* registered user is refused with the conflict status 409 and adds no user.
C24_DuplicateEmailIsConflict ==
    [][\A e \in Emails :
          (/\ CallStep("w1", "register")
           /\ result'["w1"].target = e
           /\ \E i \in Indexes(users_collection) : users_collection[i].email = lower(e))
          => /\ result'["w1"].status_code = 409
             /\ users_collection' = users_collection]_vars

\* C25: an admin's deactivate request for an existing active user sets the
\* user's is_active to false and reports success.
C25_DeactivateClearsFlag ==
    [][\A u \in Users :
          (/\ CallStep("w1", "deactivate")
           /\ result'["w1"].target = u
           /\ user_role(result'["w1"].caller) = "admin"
           /\ UserIndex(users_collection, u) # 0
           /\ users_collection[UserIndex(users_collection, u)].is_active)
          => /\ result'["w1"].success
             /\ ~users_collection'[UserIndex(users_collection, u)].is_active]_vars

\* C29: in every reachable state the kyc_status of every user record is
\* not_submitted, whatever the workflow has done with the user's submissions.
C29_UserKycStatusNeverWritten ==
    \A i \in Indexes(users_collection) : users_collection[i].kyc_status = "not_submitted"

\* status(user) reports approved for a registered user who has verified a
\* face and whose record still says not_submitted
C29_Witness ==
    /\ result["w1"].op = "status"
    /\ result["w1"].status = "approved"
    /\ UserIndex(users_collection, result["w1"].caller) # 0
    /\ users_collection[UserIndex(users_collection, result["w1"].caller)].kyc_status
          = "not_submitted"
    /\ \E i \in Indexes(face_verification_collection) :
          face_verification_collection[i].user_id = result["w1"].caller

(***************************************************************************)
(* Decides and updates of two request threads, each call split where it    *)
(* goes to the database: the read of the submission with the checks on     *)
(* what was read, then the write.                                          *)
(***************************************************************************)
\* verify_kyc_submission up to the checks on the fetched document
verify_kyc_submission_read(w, kyc_id, admin_id, decision, notes, find_ok) ==
    /\ inflight[w] = None
    /\ LET kyc_submission == get_kyc_submission_by_id(kyc_collection, kyc_id, find_ok)
           check == decide_checks(decision, kyc_submission)
       IN  IF check # "ok"
              THEN /\ result' = [result EXCEPT ![w] =
                         Response("decide", admin_id, kyc_id, FALSE, check, "none",
                                  NoNotes)]
                   /\ UNCHANGED inflight
              ELSE /\ inflight' = [inflight EXCEPT ![w] =
                         [kind |-> "decide_read", kyc_id |-> kyc_id,
                          user_id |-> kyc_submission.user_id, admin_id |-> admin_id,
                          decision |-> decision, admin_notes |-> <<admin_id, notes>>]]
                   /\ UNCHANGED result
    /\ UNCHANGED <<users_collection, kyc_collection, blockchain_collection,
                   face_verification_collection, chain, store_calls, blockchain_result>>

\* update_kyc_status and what follows it, up to the blockchain store
verify_kyc_submission_write(w, update_ok) ==
    /\ inflight[w].kind = "decide_read"
    /\ LET call == inflight[w]
           updated == update_kyc_status(kyc_collection, call.kyc_id, call.decision,
                                        call.admin_notes, update_ok)
           then == after_update(call.decision, updated.ok)
       IN  /\ kyc_collection' = updated.coll
           /\ CASE then = "failed" ->
                      /\ result' = [result EXCEPT ![w] =
                            Response("decide", call.admin_id, call.kyc_id, FALSE,
                                     "Failed to update KYC status", "none", NoNotes)]
                      /\ inflight' = [inflight EXCEPT ![w] = None]
                [] then = "anchor" ->
                      /\ inflight' = [inflight EXCEPT ![w] =
                            [kind |-> "decide", kyc_id |-> call.kyc_id,
                             user_id |-> call.user_id, admin_id |-> call.admin_id,
                             decision |-> call.decision,
                             admin_notes |-> call.admin_notes]]
                      /\ UNCHANGED result
                [] then = "return" ->
                      /\ result' = [result EXCEPT ![w] =
                            decide_response(call.admin_id, call.kyc_id, call.decision,
                                            call.admin_notes, None)]
                      /\ inflight' = [inflight EXCEPT ![w] = None]
    /\ UNCHANGED <<users_collection, blockchain_collection, face_verification_collection,
                   chain, store_calls, blockchain_result>>

\* update_kyc_submission up to the checks on the fetched document
update_kyc_submission_read(w, kyc_id, user_id, update_data, find_ok) ==
    /\ inflight[w] = None
    /\ LET kyc_submission == get_kyc_submission_by_id(kyc_collection, kyc_id, find_ok)
           check == update_checks(kyc_submission, user_id, update_data)
       IN  IF check # "ok"
              THEN /\ result' = [result EXCEPT ![w] =
                         Response("update", user_id, kyc_id, FALSE, check, "none",
                                  NoNotes)]
                   /\ UNCHANGED inflight
              ELSE /\ inflight' = [inflight EXCEPT ![w] =
                         [kind |-> "update_read", kyc_id |-> kyc_id, user_id |-> user_id,
                          filter_id |-> update_filter_id(kyc_submission),
                          face_image |-> update_data.face_image]]
                   /\ UNCHANGED result
    /\ UNCHANGED <<users_collection, kyc_collection, blockchain_collection,
                   face_verification_collection, chain, store_calls, blockchain_result>>

\* the update_one of update_kyc_submission and the return
update_kyc_submission_write(w, write_ok) ==
    /\ inflight[w].kind = "update_read"
    /\ LET call == inflight[w]
           update_fields == IF call.face_image # "absent"
                               THEN [status |-> "pending", face_image |-> call.face_image]
                               ELSE [status |-> "pending"]
           written == update_one(kyc_collection, call.filter_id, update_fields)
           Return(success, message, status) ==
               result' = [result EXCEPT ![w] =
                   Response("update", call.user_id, call.kyc_id, success, message,
                            status, NoNotes)]
       IN  IF ~write_ok
              THEN Return(FALSE, "KYC update failed due to system error", "none")
                   /\ UNCHANGED kyc_collection
           ELSE /\ kyc_collection' = written.coll
                /\ IF written.modified_count > 0
                      THEN Return(TRUE, "KYC submission updated successfully", "pending")
                      ELSE Return(FALSE, "No changes were made to KYC submission", "none")
    /\ inflight' = [inflight EXCEPT ![w] = None]
    /\ UNCHANGED <<users_collection, blockchain_collection, face_verification_collection,
                   chain, store_calls, blockchain_result>>

DecideRaceNext ==
    \/ \E u \in Users, d \in DecisionPayloads :
          submit_kyc("w1", u, d, TRUE, TRUE)
    \/ \E w \in Workers, k \in KycIdStrings, a \in Admins,
          d \in {"approved", "rejected"}, n \in Notes :
          verify_kyc_submission_read(w, k, a, d, n, TRUE)
    \/ \E w \in Workers : verify_kyc_submission_write(w, TRUE)
    \/ \E w \in Workers : verify_kyc_submission_anchor(w, "confirmed", TRUE)
    \/ \E w \in Workers, k \in KycIdStrings, u \in Users, d \in DecisionPayloads :
          update_kyc_submission_read(w, k, u, d, TRUE)
    \/ \E w \in Workers : update_kyc_submission_write(w, TRUE)

DecideRaceSpec == Init /\ [][DecideRaceNext]_vars

\* the workers whose last call was a successful decide of the given id
Deciders(kyc_id) ==
    {w \in Workers : result[w].op = "decide" /\ result[w].success
                        /\ result[w].kyc_id = kyc_id}

\* C26: of the decide calls on one pending submission, those that read the
\* status before either wrote included, at most one returns success, at most
\* one blockchain store is attempted for the submission, and the status is
\* the decision of the call that succeeded.
C26_ConcurrentDecidesOneWins ==
    \A k \in KycIdStrings :
       /\ Cardinality(Deciders(k)) <= 1
       /\ store_calls[k] <= 1
       /\ \A w \in Deciders(k) :
             kyc_collection[DocIndex(kyc_collection, k)].status = result[w].status

\* C27: once a submission's status is approved, no step changes it, also
\* when calls of other request threads interleave with the decide that
\* approves it.
C27_ApprovedIsTerminal ==
    [][\A i \in Indexes(kyc_collection) :
          kyc_collection[i].status = "approved"
          => kyc_collection'[i].status = "approved"]_vars

=============================================================================
